---- MODULE Spec2Model ----
(***************************************************************************)
(* A model of the two algorithmic cores of codeops-mcp:                    *)
(*                                                                         *)
(*   - the markdown section-merge engine of tools/analyze-project          *)
(*     (parseProjectMdSections, classifySection, mergeProjectMd, ...);     *)
(*   - the TF-IDF SearchEngine of store/search-engine                      *)
(*     (buildIndex, clear, search, tokenize, ...).                         *)
(*                                                                         *)
(* Texts are TLA+ strings and are processed character by character, the    *)
(* way the TypeScript code processes them.  Characters that cannot be      *)
(* written inside a TLA+ string literal are written with an ASCII          *)
(* stand-in, used consistently in every text and every pattern:            *)
(*                                                                         *)
(*      ^  the backquote               @  U+1F6A8 (police light emoji)     *)
(*      $  U+1F504 (arrows emoji)      +  U+2705  (check mark)             *)
(*      %  U+274C  (cross mark)        =  U+2014  (em dash)                *)
(***************************************************************************)
EXTENDS Integers, Sequences, FiniteSets, TLC

(* Strings: the JavaScript string primitives the code relies on.           *)

Ch(s, i) == SubSeq(s, i, i)

startsWith(s, p) == Len(s) >= Len(p) /\ SubSeq(s, 1, Len(p)) = p

includes(s, p) == \E i \in 1..(Len(s) - Len(p) + 1) : SubSeq(s, i, i + Len(p) - 1) = p

\* String.prototype.trim / trimStart strip these (the white space of the model's alphabet).
WhiteSpace == {" ", "\t", "\n", "\r"}

\* '.' in a JavaScript regular expression matches anything but these.
LineTerminators == {"\n", "\r"}

UpperCase == {"A","B","C","D","E","F","G","H","I","J","K","L","M",
              "N","O","P","Q","R","S","T","U","V","W","X","Y","Z"}

LowerOf == [c \in UpperCase |->
    CASE c = "A" -> "a" [] c = "B" -> "b" [] c = "C" -> "c" [] c = "D" -> "d"
      [] c = "E" -> "e" [] c = "F" -> "f" [] c = "G" -> "g" [] c = "H" -> "h"
      [] c = "I" -> "i" [] c = "J" -> "j" [] c = "K" -> "k" [] c = "L" -> "l"
      [] c = "M" -> "m" [] c = "N" -> "n" [] c = "O" -> "o" [] c = "P" -> "p"
      [] c = "Q" -> "q" [] c = "R" -> "r" [] c = "S" -> "s" [] c = "T" -> "t"
      [] c = "U" -> "u" [] c = "V" -> "v" [] c = "W" -> "w" [] c = "X" -> "x"
      [] c = "Y" -> "y" [] c = "Z" -> "z"]

RECURSIVE LowerRange(_, _, _)
LowerRange(s, lo, hi) ==
    IF lo > hi THEN ""
    ELSE IF lo = hi THEN (IF Ch(s, lo) \in UpperCase THEN LowerOf[Ch(s, lo)] ELSE Ch(s, lo))
    ELSE LET mid == (lo + hi) \div 2
         IN  LowerRange(s, lo, mid) \o LowerRange(s, mid + 1, hi)

toLowerCase(s) == LowerRange(s, 1, Len(s))

\* Index of the first character at or after i that is not white space
\* (Len(s)+1 when there is none).
RECURSIVE FirstNonSpace(_, _)
FirstNonSpace(s, i) ==
    IF i <= Len(s) /\ Ch(s, i) \in WhiteSpace THEN FirstNonSpace(s, i + 1) ELSE i

\* Index of the last character at or before i that is not white space
\* (0 when there is none).
RECURSIVE LastNonSpace(_, _)
LastNonSpace(s, i) ==
    IF i >= 1 /\ Ch(s, i) \in WhiteSpace THEN LastNonSpace(s, i - 1) ELSE i

trimStart(s) == SubSeq(s, FirstNonSpace(s, 1), Len(s))

trim(s) == SubSeq(s, FirstNonSpace(s, 1), LastNonSpace(s, Len(s)))

\* String.prototype.split('\n'): the pieces between the newlines, at least one piece.
split(s) ==
    LET newlines == SelectSeq([i \in 1..Len(s) |-> i], LAMBDA i : Ch(s, i) = "\n")
        from(k)  == IF k = 1 THEN 1 ELSE newlines[k - 1] + 1
        upto(k)  == IF k > Len(newlines) THEN Len(s) ELSE newlines[k] - 1
    IN  [k \in 1..(Len(newlines) + 1) |-> SubSeq(s, from(k), upto(k))]

\* Array.prototype.join('\n'): '' for the empty array.
RECURSIVE JoinRange(_, _, _)
JoinRange(a, lo, hi) ==
    IF lo > hi THEN ""
    ELSE IF lo = hi THEN a[lo]
    ELSE LET mid == (lo + hi) \div 2
         IN  JoinRange(a, lo, mid) \o "\n" \o JoinRange(a, mid + 1, hi)

join(a) == JoinRange(a, 1, Len(a))

\* Array.prototype.join(', ') as formatProjectMd uses it on the analysis lists.
RECURSIVE joinComma(_)
joinComma(a) ==
    IF a = <<>> THEN ""
    ELSE IF Len(a) = 1 THEN a[1]
    ELSE a[1] \o ", " \o joinComma(Tail(a))

(***************************************************************************)
(* tools/analyze-project: the fresh document.                              *)
(***************************************************************************)

\* JavaScript's  x || d  on a string-or-null value: null and '' are both falsy
\* (a null field of ProjectAnalysis is written "" in the model).
OrElse(x, d) == IF x = "" THEN d ELSE x

\* for (const dir of analysis.structure) parts.push(`${dir}/`)
StructureLines(structure) == [i \in 1..Len(structure) |-> structure[i] \o "/"]

formatProjectMdParts(analysis) ==
    << "# Generated Project Configuration",
       "",
       "> **Auto-generated by ^analyze_project^**",
       "> **Project:** " \o analysis.name,
       "> **Type:** " \o analysis.type,
       "",
       "Save this content to ^.clinerules/project.md^ in your project root,",
       "then review and adjust the values as needed.",
       "",
       "---",
       "",
       "## @ MANDATORY: Load CodeOps Rules Before Any Work",
       "",
       "**Before ANY planning or implementation, the AI agent MUST load these rules",
       "using the codeops-mcp tools:**",
       "",
       "1. ^get_rule(\"agents\")^ = Load agent behavior rules **(REQUIRED FIRST)**",
       "2. ^get_rule(\"code\")^ = Load coding standards",
       "3. ^get_rule(\"testing\")^ = Load testing workflows",
       "4. ^get_rule(\"git-commands\")^ = Load git commit protocols",
       "",
       "These rules are **mandatory** and must be consulted before every task.",
       "**Do NOT skip this step. Do NOT proceed without reading these documents.**",
       "",
       "---",
       "",
       "## Project Overview",
       "",
       "- **Name:** " \o analysis.name,
       "- **Description:** [TODO: Add project description]",
       "- **Type:** " \o analysis.type,
       "",
       "## Toolchain",
       "",
       "- **Language(s):** " \o OrElse(joinComma(analysis.languages), "[Not detected]"),
       "- **Framework(s):** " \o OrElse(joinComma(analysis.frameworks), "[None detected]"),
       "- **Package Manager:** " \o OrElse(analysis.packageManager, "[Not detected]"),
       "- **Test Framework:** " \o OrElse(analysis.testFramework, "[Not detected]") >>
    \o (IF analysis.isMonorepo THEN << "- **Structure:** Monorepo" >> ELSE << >>)
    \o
    << "",
       "**Manifest files found:** " \o joinComma(analysis.manifestFiles),
       "",
       "## Commands",
       "",
       "All commands assume execution from the project root. Prefix all shell commands with ^clear &&^.",
       "",
       "### Build",
       "",
       "^^^bash",
       OrElse(analysis.buildCommand, "# [TODO: Add build command]"),
       "^^^",
       "",
       "### Test",
       "",
       "^^^bash",
       "# Run all tests",
       OrElse(analysis.testCommand, "# [TODO: Add test command]"),
       "^^^",
       "",
       "### Verify (before commit)",
       "",
       "^^^bash",
       "# Full verification = run this before any git commit",
       OrElse(analysis.verifyCommand, "# [TODO: Add verify command]"),
       "^^^",
       "",
       "## Project Structure",
       "",
       "### Type: " \o (IF analysis.isMonorepo THEN "Monorepo" ELSE "Single repository"),
       "",
       "### Directory Layout",
       "",
       "^^^" >>
    \o (IF Len(analysis.structure) > 0
        THEN StructureLines(analysis.structure)
        ELSE << "[TODO: Add directory layout]" >>)
    \o
    << "^^^",
       "",
       "## Coding Conventions",
       "",
       "### Naming",
       "",
       "- **Files:** [TODO: e.g., kebab-case, camelCase, snake_case]",
       "- **Components/Classes:** [TODO: e.g., PascalCase]",
       "- **Functions/Methods:** [TODO: e.g., camelCase, snake_case]",
       "- **Constants:** [TODO: e.g., UPPER_SNAKE_CASE]",
       "",
       "## Git & Commit Conventions",
       "",
       "### Commit Scope",
       "",
       "^^^" >>
    \o (IF analysis.isMonorepo
        THEN << "# Monorepo = use package name as scope:",
                "# feat(package-name): description" >>
        ELSE << "# Use module/feature as scope:",
                "# feat(module): description" >>)
    \o
    << "^^^",
       "",
       "### Branch Strategy",
       "",
       "- **Main branch:** ^main^",
       "- **Feature branches:** ^feature/[name]^",
       "",
       "## Special Rules (Project-Specific)",
       "",
       "^^^",
       "[TODO: Add any project-specific rules]",
       "^^^",
       "",
       "## Cross-References",
       "",
       "The generic rule files that read this ^project.md^:",
       "",
       "- **make_plan.md** = Uses verify command, file paths, commit scope",
       "- **code.md** = Uses language conventions, architecture rules",
       "- **testing.md** = Uses test commands, test locations, test framework",
       "- **git-commands.md** = Uses commit scope, verify command",
       "- **agents.md** = Uses shell commands, verify command",
       "- **plans.md** = Uses task file path patterns" >>

formatProjectMd(analysis) == join(formatProjectMdParts(analysis))

(***************************************************************************)
(* tools/analyze-project: section parser and classifier.                   *)
(***************************************************************************)

AUTO_UPDATE_SECTIONS ==
    << "## Project Overview", "## Toolchain", "## Commands", "## Project Structure" >>

STATIC_SECTIONS ==
    << "## @ MANDATORY: Load CodeOps Rules Before Any Work", "## Cross-References" >>

\* A pattern that also matches headings of level 3 and deeper: /^(#{2,})\s+(.+)$/.
headerMatchAnyLevel(line) ==
    /\ startsWith(line, "##")
    /\ \E h \in 2..(Len(line) - 2) :
          /\ \A i \in 1..h : Ch(line, i) = "#"
          /\ Ch(line, h + 1) \in WhiteSpace
          /\ \A i \in (h + 2)..Len(line) : Ch(line, i) \notin LineTerminators

\* line.match(/^(#{2})\s+(.+)$/): two '#', white space, then at least one
\* character up to the end of the line, none of it a line terminator.
headerMatch(line) ==
    /\ startsWith(line, "##")
    /\ \E k \in 1..(Len(line) - 3) :
          /\ \A i \in 3..(2 + k) : Ch(line, i) \in WhiteSpace
          /\ \A i \in (3 + k)..Len(line) : Ch(line, i) \notin LineTerminators

ParsedSection(header, level, lines) ==
    [header |-> header, level |-> level, content |-> join(lines)]

\* The loop of parseProjectMdSections from line i on, taken one section at a
\* time: currentHeader/currentLevel are those of the section being collected,
\* which started at line i; its currentLines are the lines up to the next
\* header line (or the end), and it is saved unless it is an empty preamble.
RECURSIVE parseLoop(_, _, _, _, _)
parseLoop(lines, i, currentHeader, currentLevel, sections) ==
    LET H            == {h \in i..Len(lines) : headerMatch(lines[h])}
        next         == IF H = {} THEN Len(lines) + 1 ELSE CHOOSE h \in H : \A g \in H : h <= g
        currentLines == SubSeq(lines, i, next - 1)
        saved        == IF currentHeader # "" \/ Len(currentLines) > 0
                        THEN Append(sections, ParsedSection(currentHeader, currentLevel, currentLines))
                        ELSE sections
    IN  IF next > Len(lines) THEN saved
        ELSE parseLoop(lines, next + 1, lines[next], 2, saved)

parseProjectMdSections(content) == parseLoop(split(content), 1, "", 0, << >>)

\* classifySection that compares the header with the known headings as written.
classifySectionCaseSensitive(header) ==
    IF trim(header) = "" THEN "preserve"
    ELSE IF \E k \in 1..Len(AUTO_UPDATE_SECTIONS) :
                startsWith(trim(header), AUTO_UPDATE_SECTIONS[k])
         THEN "auto-update"
    ELSE IF \E k \in 1..Len(STATIC_SECTIONS) :
                startsWith(trim(header), STATIC_SECTIONS[k])
         THEN "static"
    ELSE "preserve"

classifySection(header) ==
    LET normalized == trim(header)
        lower      == toLowerCase(normalized)
    IN  IF normalized = "" THEN "preserve"
        ELSE IF \E k \in 1..Len(AUTO_UPDATE_SECTIONS) :
                    startsWith(lower, toLowerCase(AUTO_UPDATE_SECTIONS[k]))
             THEN "auto-update"
        ELSE IF \E k \in 1..Len(STATIC_SECTIONS) :
                    startsWith(lower, toLowerCase(STATIC_SECTIONS[k]))
             THEN "static"
        ELSE "preserve"

(***************************************************************************)
(* tools/analyze-project: the merge engine.                                *)
(***************************************************************************)

\* The value null of  ParsedSection | null  (the parser never yields level -1).
NoSection == [header |-> "", level |-> -1, content |-> ""]

normalizeHeader(header) == toLowerCase(trim(header))

\* The first fresh section whose trimmed, lower-cased header equals the given one.
generateFreshSection(header, freshSections) ==
    LET normalizedHeader == toLowerCase(trim(header))
        M == {k \in 1..Len(freshSections) :
                 toLowerCase(trim(freshSections[k].header)) = normalizedHeader}
    IN  IF M = {} THEN NoSection
        ELSE freshSections[CHOOSE k \in M : \A j \in M : k <= j]

\* header + '\n' + content
sectionText(section) == section.header \o "\n" \o section.content

DescriptionPrefix == "- **Description:**"

\* The value of the first line that starts with the prefix: <<value>>, or << >> for null.
extractFieldValue(lines, prefix) ==
    LET M == {k \in 1..Len(lines) : startsWith(trimStart(lines[k]), prefix)}
    IN  IF M = {} THEN << >>
        ELSE LET k       == CHOOSE i \in M : \A j \in M : i <= j
                 trimmed == trimStart(lines[k])
             IN  << trim(SubSeq(trimmed, Len(prefix) + 1, Len(trimmed))) >>

removeField(lines, prefix) ==
    SelectSeq(lines, LAMBDA line : ~ startsWith(trimStart(line), prefix))

\* Stand-ins of the characters in the range U+1F300..U+1F9FF.
EmojiRange == {"@", "$"}

RECURSIVE removeEmoji(_)
removeEmoji(s) ==
    IF s = "" THEN ""
    ELSE IF Head(s) \in EmojiRange THEN removeEmoji(Tail(s))
    ELSE Head(s) \o removeEmoji(Tail(s))

\* header.replace(/^#+\s*/, '').replace(/[\u{1F300}-\u{1F9FF}]/gu, '').trim()
extractSectionName(header) ==
    LET NotHash  == {i \in 1..Len(header) : Ch(header, i) # "#"}
        afterH   == IF NotHash = {} THEN ""
                    ELSE SubSeq(header, CHOOSE i \in NotHash : \A j \in NotHash : i <= j, Len(header))
        stripped == IF startsWith(header, "#") THEN trimStart(afterH) ELSE header
    IN  trim(removeEmoji(stripped))

MergeChange(section, description) == [section |-> section, description |-> description]

\* overviewChanges comparing the sections with their Description lines.
overviewChangesWithDescription(existingLines, freshLines) ==
    IF trim(join(existingLines)) # trim(join(freshLines))
    THEN << MergeChange("Project Overview", "Updated name/type from fresh scan") >>
    ELSE << >>

\* The change records mergeProjectOverview pushes: one when the two sections
\* differ in more than their Description lines.
overviewChanges(existingLines, freshLines) ==
    IF trim(join(removeField(existingLines, DescriptionPrefix)))
         # trim(join(removeField(freshLines, DescriptionPrefix)))
    THEN << MergeChange("Project Overview", "Updated name/type from fresh scan") >>
    ELSE << >>

\* resultLines of mergeProjectOverview: the fresh lines, the first Description
\* line carrying the user's description unless that is null, empty or a
\* [TODO placeholder.
overviewLines(freshLines, userDescription) ==
    LET isTodo == \/ userDescription = << >>
                  \/ userDescription[1] = ""
                  \/ startsWith(toLowerCase(userDescription[1]), "[todo")
        D      == {i \in 1..Len(freshLines) :
                      startsWith(trimStart(freshLines[i]), DescriptionPrefix)}
    IN  IF ~ isTodo /\ D # {}
        THEN [freshLines EXCEPT ![CHOOSE i \in D : \A j \in D : i <= j] =
                  DescriptionPrefix \o " " \o userDescription[1]]
        ELSE freshLines

\* The body of mergeProjectOverview on the split contents.
mergeOverviewLines(header, existingLines, freshLines) ==
    [text    |-> header \o "\n"
                 \o join(overviewLines(freshLines,
                                       extractFieldValue(existingLines, DescriptionPrefix))),
     changes |-> overviewChanges(existingLines, freshLines)]

\* mergeProjectOverview without the step that puts the user's Description back.
mergeProjectOverviewFreshOnly(existing, fresh) ==
    [text    |-> fresh.header \o "\n" \o join(split(fresh.content)),
     changes |-> overviewChanges(split(existing.content), split(fresh.content))]

\* Returns the merged section text and the change records it pushes.
mergeProjectOverview(existing, fresh) ==
    mergeOverviewLines(fresh.header, split(existing.content), split(fresh.content))

\* mergeAutoUpdateSection comparing the two texts without trimming them.
mergeAutoUpdateSectionUntrimmed(existing, fresh) ==
    IF sectionText(existing) = sectionText(fresh)
    THEN [text |-> sectionText(existing), changes |-> << >>]
    ELSE IF startsWith(toLowerCase(trim(existing.header)), "## project overview")
    THEN mergeProjectOverview(existing, fresh)
    ELSE [text    |-> sectionText(fresh),
          changes |-> << MergeChange(extractSectionName(existing.header),
                                     "Updated with fresh scan data") >>]

\* mergeAutoUpdateSection without the early return for identical content.
mergeAutoUpdateSectionNoCompare(existing, fresh) ==
    IF startsWith(toLowerCase(trim(existing.header)), "## project overview")
    THEN mergeProjectOverview(existing, fresh)
    ELSE [text    |-> sectionText(fresh),
          changes |-> << MergeChange(extractSectionName(existing.header),
                                     "Updated with fresh scan data") >>]

\* Returns the merged section text and the change records it pushes.
mergeAutoUpdateSection(existing, fresh) ==
    IF trim(sectionText(existing)) = trim(sectionText(fresh))
    THEN [text |-> sectionText(existing), changes |-> << >>]
    ELSE IF startsWith(toLowerCase(trim(existing.header)), "## project overview")
    THEN mergeProjectOverview(existing, fresh)
    ELSE [text    |-> sectionText(fresh),
          changes |-> << MergeChange(extractSectionName(existing.header),
                                     "Updated with fresh scan data") >>]

\* The change log; date is new Date().toISOString().split('T')[0].
formatChangeLog(changes, date) ==
    IF Len(changes) = 0
    THEN join(<< "> **+ Re-analyzed by ^analyze_project^** (no changes detected)",
                 "> **Scanned:** " \o date >>)
    ELSE join(<< "> **$ Updated by ^analyze_project^** (incremental update)",
                 "> **Scanned:** " \o date,
                 "> **Changes detected:**" >>
              \o [i \in 1..Len(changes) |->
                     "> - " \o changes[i].section \o ": " \o changes[i].description])

\* consumedFreshHeaders.add(normalizeHeader(fresh.header)) when a fresh section matched.
consumedBy(fresh) == IF fresh # NoSection THEN {normalizeHeader(fresh.header)} ELSE {}

\* One iteration of the walk: what it pushes to mergedParts and to changes,
\* and what it adds to consumedFreshHeaders.
walkStep(part, changes, consumed) == [part |-> part, changes |-> changes, consumed |-> consumed]

\* The 'auto-update' case of the walk with its fresh section.
walkAutoUpdate(merged, fresh) == walkStep(merged.text, merged.changes, consumedBy(fresh))

\* The walk's switch with the 'static' case keeping the existing section.
mergeSectionWithStaticKept(existing, fresh, strategy) ==
    IF strategy = "auto-update"
    THEN IF fresh # NoSection
         THEN walkAutoUpdate(mergeAutoUpdateSection(existing, fresh), fresh)
         ELSE walkStep(sectionText(existing), << >>, {})
    ELSE IF strategy = "static"
    THEN walkStep(sectionText(existing), << >>, consumedBy(fresh))
    ELSE walkStep(IF existing.header = "" THEN existing.content ELSE sectionText(existing),
                  << >>, consumedBy(fresh))

\* The body of the walk's switch for an existing section and the fresh
\* section generateFreshSection found for it (NoSection for null).
mergeSectionWith(existing, fresh, strategy) ==
    IF strategy = "auto-update"
    THEN IF fresh # NoSection
         THEN walkAutoUpdate(mergeAutoUpdateSection(existing, fresh), fresh)
         ELSE walkStep(sectionText(existing), << >>, {})
    ELSE IF strategy = "static"
    THEN IF fresh # NoSection
         THEN walkStep(sectionText(fresh), << >>, consumedBy(fresh))
         ELSE walkStep(sectionText(existing), << >>, {})
    ELSE walkStep(IF existing.header = "" THEN existing.content ELSE sectionText(existing),
                  << >>, consumedBy(fresh))

\* The walk iteration whose 'preserve' case does not mark the matching fresh
\* section as consumed.
mergeExistingSectionPreserveUnconsumed(existing, freshSections) ==
    IF classifySection(existing.header) = "preserve"
    THEN walkStep(IF existing.header = "" THEN existing.content ELSE sectionText(existing),
                  << >>, {})
    ELSE mergeSectionWith(existing, generateFreshSection(existing.header, freshSections),
                          classifySection(existing.header))

\* One iteration of the walk over the existing sections.
mergeExistingSection(existing, freshSections) ==
    mergeSectionWith(existing, generateFreshSection(existing.header, freshSections),
                     classifySection(existing.header))

RECURSIVE flatten(_)
flatten(seqs) == IF seqs = << >> THEN << >> ELSE Head(seqs) \o flatten(Tail(seqs))

\* The end of mergeProjectMd: the change log goes after the first line that
\* starts with '# ', or before the body when there is none.
insertChangeLog(existingSections, freshSections, walk, appended, date) ==
    LET changes       == flatten([i \in 1..Len(walk) |-> walk[i].changes])
                         \o [i \in 1..Len(appended) |->
                                MergeChange(extractSectionName(appended[i].header),
                                            "New section added from template")]
        mergedParts   == [i \in 1..Len(walk) |-> walk[i].part]
                         \o [i \in 1..Len(appended) |-> sectionText(appended[i])]
        changeLog     == formatChangeLog(changes, date)
        body          == join(mergedParts)
        lines         == split(body)
        T             == {i \in 1..Len(lines) : startsWith(lines[i], "# ")}
        titleLineIndex == IF T = {} THEN 0 ELSE CHOOSE i \in T : \A j \in T : i <= j
    IN  [existingSections |-> existingSections,
         freshSections    |-> freshSections,
         walk             |-> walk,
         appended         |-> appended,
         changes          |-> changes,
         mergedParts      |-> mergedParts,
         changeLog        |-> changeLog,
         titleLineIndex   |-> titleLineIndex,
         text |-> IF titleLineIndex > 0
                  THEN join(SubSeq(lines, 1, titleLineIndex) \o << "", changeLog >>
                            \o SubSeq(lines, titleLineIndex + 1, Len(lines)))
                  ELSE changeLog \o "\n" \o body]

\* The loop of mergeProjectMd over the fresh sections after the walk: those
\* with a heading that the walk did not consume are appended.
appendFreshSections(existingSections, freshSections, walk, date) ==
    insertChangeLog(existingSections, freshSections, walk,
        SelectSeq(freshSections, LAMBDA fresh :
            /\ fresh.header # ""
            /\ normalizeHeader(fresh.header) \notin UNION {walk[i].consumed : i \in 1..Len(walk)}),
        date)

\* The walk that leaves out the existing sections without a heading.
mergeSectionsDropPreamble(existingSections, freshSections, date) ==
    appendFreshSections(existingSections, freshSections,
        [i \in 1..Len(SelectSeq(existingSections, LAMBDA existing : existing.header # "")) |->
            mergeExistingSection(
                SelectSeq(existingSections, LAMBDA existing : existing.header # "")[i],
                freshSections)],
        date)

\* The walk of mergeProjectMd over the existing sections, in order.
mergeSections(existingSections, freshSections, date) ==
    appendFreshSections(existingSections, freshSections,
        [i \in 1..Len(existingSections) |->
            mergeExistingSection(existingSections[i], freshSections)],
        date)

\* mergeProjectMd, with the intermediate values of the run kept next to the
\* returned text:  walk[i] is the outcome of existing section i, appended the
\* fresh sections pushed after the walk, changes the final change list.
mergeProjectMd(existingSections, analysis, date) ==
    mergeSections(existingSections, parseProjectMdSections(formatProjectMd(analysis)), date)

(***************************************************************************)
(* store/search-engine: tokenizer.                                         *)
(***************************************************************************)

STOP_WORDS ==
    {"a", "an", "and", "are", "as", "at", "be", "but", "by", "for",
     "from", "has", "have", "he", "her", "his", "how", "i", "if", "in",
     "is", "it", "its", "just", "let", "may", "my", "no", "not", "of",
     "on", "or", "our", "own", "say", "she", "so", "than", "that", "the",
     "their", "them", "then", "there", "these", "they", "this", "to", "too",
     "us", "was", "we", "what", "when", "which", "who", "will", "with",
     "you", "your"}

\* The least element of a non-empty set of integers.
Min(S) == CHOOSE i \in S : \A j \in S : i <= j

\* Position of the first occurrence of p in s at or after from; 0 when there is none.
indexOfFrom(s, p, from) ==
    LET I == {i \in from..(Len(s) - Len(p) + 1) : SubSeq(s, i, i + Len(p) - 1) = p}
    IN  IF I = {} THEN 0 ELSE Min(I)

\* .replace(/```[\s\S]*?```/g, ' ')
RECURSIVE removeCodeBlocks(_)
removeCodeBlocks(s) ==
    LET i == indexOfFrom(s, "^^^", 1)
        j == IF i = 0 THEN 0 ELSE indexOfFrom(s, "^^^", i + 3)
    IN  IF j = 0 THEN s
        ELSE SubSeq(s, 1, i - 1) \o " " \o removeCodeBlocks(SubSeq(s, j + 3, Len(s)))

\* .replace(/`[^`]+`/g, ' ')
RECURSIVE removeInlineCode(_)
removeInlineCode(s) ==
    LET I == {i \in 1..(Len(s) - 2) :
                 /\ Ch(s, i) = "^"
                 /\ Ch(s, i + 1) # "^"
                 /\ indexOfFrom(s, "^", i + 2) # 0}
    IN  IF I = {} THEN s
        ELSE LET i == Min(I)
                 j == indexOfFrom(s, "^", i + 2)
             IN  SubSeq(s, 1, i - 1) \o " " \o removeInlineCode(SubSeq(s, j + 1, Len(s)))

\* For a '[' at i: <<j, k>> with ']' at j, '(' at j+1 and ')' at k, as
\* /\[([^\]]+)\]\([^)]+\)/ matches them; << >> when the pattern fails at i.
linkAt(s, i) ==
    LET j == indexOfFrom(s, "]", i + 1)
        k == IF j = 0 THEN 0 ELSE indexOfFrom(s, ")", j + 2)
    IN  IF /\ Ch(s, i) = "["
           /\ j >= i + 2
           /\ Ch(s, j + 1) = "("
           /\ k >= j + 3
        THEN <<j, k>> ELSE << >>

\* .replace(/\[([^\]]+)\]\([^)]+\)/g, '$1')
RECURSIVE keepLinkText(_)
keepLinkText(s) ==
    LET I == {i \in 1..Len(s) : linkAt(s, i) # << >>}
    IN  IF I = {} THEN s
        ELSE LET i == Min(I)
                 m == linkAt(s, i)
             IN  SubSeq(s, 1, i - 1) \o SubSeq(s, i + 1, m[1] - 1)
                   \o keepLinkText(SubSeq(s, m[2] + 1, Len(s)))

TokenChars ==
    {"a","b","c","d","e","f","g","h","i","j","k","l","m","n","o","p","q","r","s","t",
     "u","v","w","x","y","z","0","1","2","3","4","5","6","7","8","9","-"}

\* .replace(/[*_~#>|]/g, ' ').split(/[^a-z0-9-]+/): the maximal runs of
\* token characters, in order (the empty pieces split() also yields are
\* dropped by the length filter that follows).
splitTokens(s) ==
    LET isTok(i) == Ch(s, i) \in TokenChars
        Starts   == {i \in 1..Len(s) : isTok(i) /\ (i = 1 \/ ~ isTok(i - 1))}
        endOf(i) == Min({j \in i..Len(s) : j = Len(s) \/ ~ isTok(j + 1)})
        nth(k)   == CHOOSE i \in Starts : Cardinality({g \in Starts : g < i}) = k - 1
    IN  [k \in 1..Cardinality(Starts) |-> SubSeq(s, nth(k), endOf(nth(k)))]

\* tokenize without the stop-word filter.
tokenizeKeepStopWords(text) ==
    SelectSeq(splitTokens(keepLinkText(removeInlineCode(removeCodeBlocks(toLowerCase(text))))),
              LAMBDA token : Len(token) >= 2)

\* tokenize without the length filter.
tokenizeKeepShort(text) ==
    SelectSeq(splitTokens(keepLinkText(removeInlineCode(removeCodeBlocks(toLowerCase(text))))),
              LAMBDA token : token \notin STOP_WORDS)

tokenize(text) ==
    SelectSeq(splitTokens(keepLinkText(removeInlineCode(removeCodeBlocks(toLowerCase(text))))),
              LAMBDA token : Len(token) >= 2 /\ token \notin STOP_WORDS)

\* countTokens: token -> number of occurrences.
countTokens(tokens) ==
    [token \in {tokens[i] : i \in 1..Len(tokens)} |->
        Cardinality({i \in 1..Len(tokens) : tokens[i] = token})]

(***************************************************************************)
(* store/search-engine: the engine.  An engine value holds the three       *)
(* fields of a SearchEngine object:                                        *)
(*   invertedIndex   token -> sequence of [documentId, termFrequency]      *)
(*   indexedDocs     the Map of IndexedDocument by document id, as the     *)
(*                   sequence of its values in insertion order             *)
(*   totalDocuments                                                        *)
(***************************************************************************)

DEFAULT_SEARCH_LIMIT == 5

MAX_SEARCH_LIMIT == 7

\* FIELD_WEIGHTS (title 10.0, description 5.0, content 1.0)
FIELD_WEIGHTS == [title |-> 10, description |-> 5, content |-> 1]

\* new SearchEngine()
NewEngine == [invertedIndex |-> << >>, indexedDocs |-> << >>, totalDocuments |-> 0]

\* Map.prototype.set on indexedDocs: an existing key keeps its position.
setIndexedDoc(indexedDocs, indexedDoc) ==
    LET P == {i \in 1..Len(indexedDocs) : indexedDocs[i].entry.id = indexedDoc.entry.id}
    IN  IF P = {} THEN Append(indexedDocs, indexedDoc)
        ELSE [indexedDocs EXCEPT ![Min(P)] = indexedDoc]

\* The body of the loop of buildIndex for one document.
indexDocument(engine, entry) ==
    LET titleTokens       == tokenize(entry.title)
        descriptionTokens == tokenize(entry.description)
        contentTokens     == tokenize(entry.content)
        indexedDoc  == [entry |-> entry, titleTokens |-> titleTokens,
                        descriptionTokens |-> descriptionTokens,
                        contentTokens |-> contentTokens]
        allTokens   == titleTokens \o descriptionTokens \o contentTokens
        tokenCounts == countTokens(allTokens)
        old         == engine.invertedIndex
    IN  [engine EXCEPT
           !.indexedDocs   = setIndexedDoc(engine.indexedDocs, indexedDoc),
           !.invertedIndex =
               [token \in DOMAIN old \cup DOMAIN tokenCounts |->
                   IF token \notin DOMAIN tokenCounts THEN old[token]
                   ELSE LET indexEntry == [documentId |-> entry.id,
                                           termFrequency |-> tokenCounts[token]]
                        IN  IF token \in DOMAIN old
                            THEN Append(old[token], indexEntry)
                            ELSE << indexEntry >>]]

RECURSIVE indexDocuments(_, _)
indexDocuments(engine, documents) ==
    IF documents = << >> THEN engine
    ELSE indexDocuments(indexDocument(engine, Head(documents)), Tail(documents))

buildIndex(engine, documents) ==
    indexDocuments([engine EXCEPT !.totalDocuments = Len(documents)], documents)

\* clear() without indexedDocs.clear().
clearKeepsDocuments(engine) ==
    [engine EXCEPT !.invertedIndex = << >>, !.totalDocuments = 0]

clear(engine) ==
    [invertedIndex |-> << >>, indexedDocs |-> << >>, totalDocuments |-> 0]

vocabularySize(engine) == Cardinality(DOMAIN engine.invertedIndex)

(***************************************************************************)
(* Scoring.  The code computes in IEEE doubles; the model computes in      *)
(* exact integers: a natural logarithm is its value in thousandths, and a   *)
(* score is a fraction [num, den] of thousandths with den > 0.              *)
(***************************************************************************)

\* Math.log(n) in thousandths, n = 1..48.
LnMilli ==
    << 0, 693, 1099, 1386, 1609, 1792, 1946, 2079, 2197, 2303, 2398, 2485,
       2565, 2639, 2708, 2773, 2833, 2890, 2944, 2996, 3045, 3091, 3135, 3178,
       3219, 3258, 3296, 3332, 3367, 3401, 3434, 3466, 3497, 3526, 3555, 3584,
       3611, 3638, 3664, 3689, 3714, 3738, 3761, 3784, 3807, 3829, 3850, 3871 >>

Milli == 1000

\* The number of field tokens that equal the token or start with it, and the
\* number of field tokens: calculateTf is their quotient (0 for an empty field).
tfCount(token, fieldTokens) ==
    Cardinality({i \in 1..Len(fieldTokens) : startsWith(fieldTokens[i], token)})

\* The posting count calculateIdf divides by: that of the token itself, or
\* the summed posting counts of the index tokens that start with it.
RECURSIVE sumLengths(_, _)
sumLengths(index, tokens) ==
    IF tokens = {} THEN 0
    ELSE LET t == CHOOSE x \in tokens : TRUE
         IN  Len(index[t]) + sumLengths(index, tokens \ {t})

idfCount(engine, token) ==
    IF token \in DOMAIN engine.invertedIndex /\ Len(engine.invertedIndex[token]) > 0
    THEN Len(engine.invertedIndex[token])
    ELSE sumLengths(engine.invertedIndex,
                    {t \in DOMAIN engine.invertedIndex : startsWith(t, token)})

\* calculateIdf in thousandths: Math.log(totalDocuments / count) + 1, and 0
\* when no index token matches.  (totalDocuments = 0 is handled by the caller.)
calculateIdf(engine, token) ==
    LET count == idfCount(engine, token)
    IN  IF count = 0 THEN 0
        ELSE LnMilli[engine.totalDocuments] - LnMilli[count] + Milli

\* scoreDocument: the sum over the query tokens of
\*   tf(title) * idf * 10 + tf(description) * idf * 5 + tf(content) * idf * 1
\* as the fraction num/den, den the product of the non-zero field lengths.
\* With totalDocuments = 0 every idf is 0 or Math.log(0) + 1 = -Infinity, so
\* the sum is 0, -Infinity or NaN: num is then 0 or -1, never positive.
scoreDocument(engine, indexedDoc, queryTokens) ==
    LET lenT == Len(indexedDoc.titleTokens)
        lenD == Len(indexedDoc.descriptionTokens)
        lenC == Len(indexedDoc.contentTokens)
        dT   == IF lenT = 0 THEN 1 ELSE lenT
        dD   == IF lenD = 0 THEN 1 ELSE lenD
        dC   == IF lenC = 0 THEN 1 ELSE lenC
        term(q) ==
            LET queryToken == queryTokens[q]
            IN  IF engine.totalDocuments = 0
                THEN (IF idfCount(engine, queryToken) = 0 THEN 0 ELSE -1)
                ELSE calculateIdf(engine, queryToken)
                     * ( FIELD_WEIGHTS.title * tfCount(queryToken, indexedDoc.titleTokens) * dD * dC
                       + FIELD_WEIGHTS.description
                           * tfCount(queryToken, indexedDoc.descriptionTokens) * dT * dC
                       + FIELD_WEIGHTS.content
                           * tfCount(queryToken, indexedDoc.contentTokens) * dT * dD )
        sum[q \in 0..Len(queryTokens)] == IF q = 0 THEN 0 ELSE sum[q - 1] + term(q)
        nonFinite == engine.totalDocuments = 0
                     /\ \E q \in 1..Len(queryTokens) : term(q) # 0
    IN  [num |-> IF nonFinite THEN -1 ELSE sum[Len(queryTokens)], den |-> dT * dD * dC]

\* getMaxPossibleScore in thousandths: queryTokenCount * 10 * (Math.log(totalDocuments) + 1)
getMaxPossibleScore(engine, queryTokenCount) ==
    queryTokenCount * FIELD_WEIGHTS.title * (LnMilli[engine.totalDocuments] + Milli)

\* relevanceOf without the Math.min(..., 100).
relevanceOfUnclamped(score, maxPossibleScore) ==
    (2 * 100 * score.num + score.den * maxPossibleScore) \div (2 * score.den * maxPossibleScore)

\* Math.min(Math.round((score / maxPossibleScore) * 100), 100) for a positive
\* score; Math.round(x) is floor(x + 1/2).
relevanceOf(score, maxPossibleScore) ==
    LET d       == score.den * maxPossibleScore
        rounded == (2 * 100 * score.num + d) \div (2 * d)
    IN  IF rounded < 100 THEN rounded ELSE 100

\* truncate that cuts the line without appending '...'.
truncateNoEllipsis(trimmed, maxLength) ==
    IF Len(trimmed) > maxLength THEN SubSeq(trimmed, 1, maxLength) ELSE trimmed

\* trimmed.length > maxLength ? trimmed.substring(0, maxLength) + '...' : trimmed
truncate(trimmed, maxLength) ==
    IF Len(trimmed) > maxLength THEN SubSeq(trimmed, 1, maxLength) \o "..." ELSE trimmed

EXCERPT_MAX_LENGTH == 200

extractExcerpt(content, queryTokens, maxLength) ==
    LET lines == split(content)
        hasMatch(line) == \E q \in 1..Len(queryTokens) :
                              includes(toLowerCase(line), queryTokens[q])
        structural(trimmed) ==
            \/ startsWith(trimmed, "#")   \/ startsWith(trimmed, "|")
            \/ startsWith(trimmed, "^^^") \/ startsWith(trimmed, "---")
            \/ startsWith(trimmed, ">")   \/ startsWith(trimmed, "- %")
            \/ startsWith(trimmed, "- +") \/ Len(trimmed) < 20
        First == {i \in 1..Len(lines) :
                     /\ hasMatch(lines[i])
                     /\ ~ structural(trim(lines[i]))
                     /\ Len(trim(lines[i])) > 0}
        Fallback == {i \in 1..Len(lines) :
                        LET trimmed == trim(lines[i])
                        IN  /\ trimmed # ""
                            /\ ~ startsWith(trimmed, "#")
                            /\ ~ startsWith(trimmed, ">")
                            /\ ~ startsWith(trimmed, "---")
                            /\ Len(trimmed) > 20}
    IN  IF First # {} THEN truncate(trim(lines[Min(First)]), maxLength)
        ELSE IF Fallback # {} THEN truncate(trim(lines[Min(Fallback)]), maxLength)
        ELSE "CodeOps rule document"

\* a.num/a.den > b.num/b.den
scoreGreater(a, b) == a.num * b.den > b.num * a.den

MathMax(a, b) == IF a > b THEN a ELSE b

MathMin(a, b) == IF a < b THEN a ELSE b

\* effectiveLimit without the Math.max(1, ...).
effectiveLimitNoLowerClamp(limit) == MathMin(limit, MAX_SEARCH_LIMIT)

\* const effectiveLimit = Math.min(Math.max(1, limit), MAX_SEARCH_LIMIT)
effectiveLimit(limit) == MathMin(MathMax(1, limit), MAX_SEARCH_LIMIT)

\* Array.prototype.slice(0, end): a negative end counts from the end of the array.
slice(a, end) ==
    IF end < 0 THEN SubSeq(a, 1, MathMax(Len(a) + end, 0))
    ELSE SubSeq(a, 1, MathMin(end, Len(a)))

\* The category test that lets every document through.
skippedByCategoryNever(entry, categoryFilter) == FALSE

\* if (categoryFilter && indexedDoc.entry.category !== categoryFilter) continue
skippedByCategory(entry, categoryFilter) ==
    categoryFilter # "" /\ entry.category # categoryFilter

\* scoreEntries that takes the document count of the IDF from the documents
\* of the filtered category instead of the whole corpus.
scoreEntriesFilteredCorpus(engine, queryTokens, categoryFilter) ==
    SelectSeq([i \in 1..Len(engine.indexedDocs) |->
                  [doc   |-> i,
                   score |-> IF skippedByCategory(engine.indexedDocs[i].entry, categoryFilter)
                             THEN [num |-> 0, den |-> 1]
                             ELSE scoreDocument(
                                      [engine EXCEPT !.totalDocuments =
                                          IF categoryFilter = "" THEN engine.totalDocuments
                                          ELSE Cardinality({k \in 1..Len(engine.indexedDocs) :
                                                   engine.indexedDocs[k].entry.category
                                                       = categoryFilter})],
                                      engine.indexedDocs[i], queryTokens)]],
              LAMBDA e : e.score.num > 0)

\* The entries of the scores Map, in insertion order: the position of the
\* document in indexedDocs and its score, for the documents that pass the
\* category filter with a score above 0.
scoreEntries(engine, queryTokens, categoryFilter) ==
    SelectSeq([i \in 1..Len(engine.indexedDocs) |->
                  [doc   |-> i,
                   score |-> IF skippedByCategory(engine.indexedDocs[i].entry, categoryFilter)
                             THEN [num |-> 0, den |-> 1]
                             ELSE scoreDocument(engine, engine.indexedDocs[i], queryTokens)]],
              LAMBDA e : e.score.num > 0)

\* The order of a sort that is descending but puts the later of two entries
\* with equal scores first.
sortsBeforeTiesReversed(entries, j, k) ==
    \/ scoreGreater(entries[j].score, entries[k].score)
    \/ (~ scoreGreater(entries[k].score, entries[j].score) /\ j > k)

\* entry j comes before entry k after .sort(([, a], [, b]) => b - a): descending, stable
sortsBefore(entries, j, k) ==
    \/ scoreGreater(entries[j].score, entries[k].score)
    \/ (~ scoreGreater(entries[k].score, entries[j].score) /\ j < k)

sortEntries(entries) ==
    [r \in 1..Len(entries) |->
        entries[CHOOSE k \in 1..Len(entries) :
                    Cardinality({j \in 1..Len(entries) : sortsBefore(entries, j, k)}) + 1 = r]]

\* sortedResults.map(...): the SearchResult objects of the top entries.
searchResults(engine, queryTokens, top) ==
    [r \in 1..Len(top) |->
        [document  |-> engine.indexedDocs[top[r].doc].entry,
         relevance |-> relevanceOf(top[r].score,
                                   getMaxPossibleScore(engine, Len(queryTokens))),
         excerpt   |-> extractExcerpt(engine.indexedDocs[top[r].doc].entry.content, queryTokens,
                                      EXCERPT_MAX_LENGTH)]]

\* The body of search on the tokens of the query.
searchTokens(engine, queryTokens, limit, categoryFilter) ==
    IF Len(queryTokens) = 0 THEN << >>
    ELSE searchResults(engine, queryTokens,
                       slice(sortEntries(scoreEntries(engine, queryTokens, categoryFilter)),
                             effectiveLimit(limit)))

\* search(query, limit, categoryFilter).  limit is << >> when the argument is
\* omitted and <<n>> otherwise; categoryFilter is "" when omitted.
search(engine, query, limit, categoryFilter) ==
    searchTokens(engine, tokenize(query),
                 IF limit = << >> THEN DEFAULT_SEARCH_LIMIT ELSE limit[1], categoryFilter)

(***************************************************************************)
(* Inputs of the model.                                                    *)
(***************************************************************************)

\* The scanner's results (scanProject is outside the model).
NodeProject ==
    [name |-> "demo", type |-> "Node.js", languages |-> <<"TypeScript", "JavaScript">>,
     frameworks |-> << >>, packageManager |-> "npm", testFramework |-> "vitest",
     buildCommand |-> "npm run build", testCommand |-> "npm test", verifyCommand |-> "",
     isMonorepo |-> FALSE, structure |-> <<"src", "tests">>,
     manifestFiles |-> <<"package.json">>]

EmptyMonorepo ==
    [name |-> "mono", type |-> "Unknown", languages |-> << >>,
     frameworks |-> << >>, packageManager |-> "", testFramework |-> "",
     buildCommand |-> "", testCommand |-> "", verifyCommand |-> "",
     isMonorepo |-> TRUE, structure |-> << >>, manifestFiles |-> << >>]

Analyses == {NodeProject, EmptyMonorepo}

\* new Date().toISOString().split('T')[0]
Dates == {"2025-03-01"}

\* The section of the fresh document of an analysis with the given header, as text.
FreshSectionText(analysis, header) ==
    sectionText(generateFreshSection(header, parseProjectMdSections(formatProjectMd(analysis))))

\* Pieces of text an existing project.md is put together from.
ChunkPool ==
    << "# My Project",
       "## My Custom Rules\n# note\nkeep this",
       "## Toolchain\n\n- **Language(s):** Python\n## Project Overview\n\n- **Name:** mono\n"
           \o "- **Description:** [todo] later\n- **Type:** Unknown",
       "## project overview \n\n- **Name:** demo\n  - **Description:**  My app \n- **Type:** Node.js\n",
       "## Coding Conventions\n## CROSS-REFERENCES\nold refs",
       "## Cross-References (old)\nsee the wiki\n## Commands Extra\nmake all\n"
           \o FreshSectionText(NodeProject, "## Toolchain") \o "\n  " >>

MaxChunks == 2

\* Sequences over 1..n of length 1..len.
RECURSIVE IndexSeqs(_, _)
IndexSeqs(n, len) ==
    IF len = 0 THEN {<< >>}
    ELSE LET shorter == IndexSeqs(n, len - 1)
         IN  shorter \cup {Append(q, i) : q \in {r \in shorter : Len(r) = len - 1}, i \in 1..n}

ExistingTexts ==
    {join([k \in 1..Len(q) |-> ChunkPool[q[k]]]) : q \in IndexSeqs(Len(ChunkPool), MaxChunks) \ {<< >>}}
    \cup {formatProjectMd(a) : a \in Analyses}

\* The file .clinerules/project.md: << >> when it is missing or unreadable,
\* <<text>> otherwise.
ProjectFiles == {<< >>, <<"">>, <<" \n ">>} \cup {<<t>> : t \in ExistingTexts}

\* The rule documents the corpora are drawn from.
RuleDocs ==
    << [id |-> "git-commands", title |-> "Git Commands",
        description |-> "Git commit workflow", category |-> "workflow",
        content |-> "# Git\n\nUse ^git commit^ to commit every change of the workflow.\n"],
       [id |-> "testing", title |-> "Testing Standards",
        description |-> "How to test code", category |-> "standards",
        content |-> "Write the tests first. See [git rules](git-commands.md) for commits."],
       [id |-> "code", title |-> "Coding Standards",
        description |-> "Code quality rules", category |-> "standards",
        content |-> "> note\nTested code is committed code: testing comes before the commit."] >>

\* A body line of more than EXCERPT_MAX_LENGTH characters.
LongLine ==
    "  The rule list: https://example.org/team-handbook-for-everyday-engineering-work"
    \o "-----------------------------------------------------------------------------"
    \o "-----------------------------------------------------------------------------"

\* A docs directory of eight rule files: the seven bundled rule ids and one
\* file of the user's own (createDocument files an unknown id under 'standards').
AllRules ==
    << [id |-> "code", title |-> "Rules", description |-> "Rule",
        category |-> "standards", content |-> ""],
       [id |-> "testing", title |-> "Testing", description |-> "Test rules",
        category |-> "standards", content |-> "# Rules\n\n   Run rule 1 of the list before rule 2.  \n"],
       [id |-> "git-commands", title |-> "Git Rules", description |-> "",
        category |-> "workflow", content |-> "---\n| rule | what the rule is about |\n"],
       [id |-> "make_plan", title |-> "Plan Rules", description |-> "",
        category |-> "workflow", content |-> ""],
       [id |-> "plans", title |-> "Phase Rules", description |-> "",
        category |-> "planning", content |-> ""],
       [id |-> "agents", title |-> "Agent Rules", description |-> "",
        category |-> "behavior", content |-> ""],
       [id |-> "project-template", title |-> "Setup Rules", description |-> "",
        category |-> "setup", content |-> ""],
       [id |-> "team", title |-> "Team Rules", description |-> "",
        category |-> "standards", content |-> "> rule\n" \o LongLine] >>

MaxCorpus == 2

\* The document lists buildIndex is called with: the documents of RuleDocs
\* picked by a set of at most MaxCorpus positions, in the order of RuleDocs,
\* with document ids unique in a list; and the whole of AllRules.
Corpora ==
    {SelectSeq(RuleDocs, LAMBDA d : \E i \in P : RuleDocs[i] = d) : P \in
        {Q \in SUBSET (1..Len(RuleDocs)) :
            /\ Cardinality(Q) <= MaxCorpus
            /\ \A i, j \in Q : i # j => RuleDocs[i].id # RuleDocs[j].id}}
    \cup {AllRules}

\* The search calls: <<query, limit, categoryFilter>>, limit << >> and
\* categoryFilter "" when the argument is omitted.
SearchArgs ==
    { <<"git commit", << >>, "">>,
      <<"Test", <<0>>, "">>,
      <<"test", << >>, "standards">>,
      <<"comm", <<2>>, "workflow">>,
      <<"the and of", << >>, "">>,
      <<"rule", << >>, "">>,
      <<"rule", <<10>>, "">>,
      <<"comm", <<-1>>, "">>,
      <<"", <<3>>, "">>,
      <<"  \t", << >>, "">>,
      <<"x 7", << >>, "workflow">>,
      <<"co", << >>, "">> }

MaxBuilds == 2

\* The headers classifySection is called with: a heading in one of several
\* spellings, with or without white space around it and text after it.
HeaderBases ==
    {"## Project Overview", "## TOOLCHAIN", "## commands", "## Project structure",
     "## @ MANDATORY: Load CodeOps Rules Before Any Work", "## cross-references",
     "## Cross-References", "## My Custom Rules", "### Toolchain", "##  Toolchain",
     "Toolchain", "# My Project", ""}

HeaderPads == {"", " ", "\t\n"}

HeaderSuffixes == {"", " Extra", "s"}

Headers ==
    {left \o base \o suffix \o right :
        left \in HeaderPads, base \in HeaderBases, suffix \in HeaderSuffixes, right \in HeaderPads}

MaxRuns == 2

(***************************************************************************)
(* State.                                                                  *)
(***************************************************************************)

VARIABLES
    engine,      \* the SearchEngine object
    buildLog,    \* the document lists of the buildIndex calls since the last clear()
    cleared,     \* clear() has been called on the engine
    lastSearch,  \* << >>, or <<the last search call and its results>> in the current engine state
    projectMd,   \* the file .clinerules/project.md
    runs,        \* number of analyzeProject calls so far
    phase,       \* "idle", or "done" when analyzeProject has returned
    output,      \* the text analyzeProject returned
    run,         \* << >>, or <<the mergeProjectMd call of the last analyzeProject>>
    sectionHeader,   \* the header classifySection is called with
    sectionStrategy  \* "", or the strategy classifySection returned for sectionHeader

engineVars == <<engine, buildLog, cleared, lastSearch>>

mergeVars == <<projectMd, runs, phase, output, run>>

classifyVars == <<sectionHeader, sectionStrategy>>

vars == <<engine, buildLog, cleared, lastSearch, projectMd, runs, phase, output, run,
          sectionHeader, sectionStrategy>>

EngineInit ==
    /\ engine = NewEngine
    /\ buildLog = << >>
    /\ cleared = FALSE
    /\ lastSearch = << >>

MergeIdle ==
    /\ runs = 0
    /\ phase = "idle"
    /\ output = ""
    /\ run = << >>

ClassifyIdle ==
    /\ sectionHeader = ""
    /\ sectionStrategy = ""

(***************************************************************************)
(* The search engine: buildIndex, clear and search calls in any order.     *)
(***************************************************************************)

Init ==
    /\ EngineInit
    /\ projectMd = << >>
    /\ MergeIdle
    /\ ClassifyIdle

BuildIndex(documents) ==
    /\ Len(buildLog) < MaxBuilds
    /\ engine' = buildIndex(engine, documents)
    /\ buildLog' = Append(buildLog, documents)
    /\ lastSearch' = << >>
    /\ UNCHANGED <<cleared, mergeVars, classifyVars>>

Clear ==
    /\ engine' = clear(engine)
    /\ buildLog' = << >>
    /\ cleared' = TRUE
    /\ lastSearch' = << >>
    /\ UNCHANGED <<mergeVars, classifyVars>>

\* A search whose calculateIdf stores an empty posting list for a query token
\* that is no index term.
SearchStoresQueryTokens(query, limit, categoryFilter) ==
    /\ lastSearch' = << [query |-> query, limit |-> limit, categoryFilter |-> categoryFilter,
                         results |-> search(engine, query, limit, categoryFilter)] >>
    /\ engine' = [engine EXCEPT !.invertedIndex =
                     [token \in DOMAIN engine.invertedIndex
                                  \cup {tokenize(query)[q] : q \in 1..Len(tokenize(query))} |->
                         IF token \in DOMAIN engine.invertedIndex
                         THEN engine.invertedIndex[token] ELSE << >>]]
    /\ UNCHANGED <<buildLog, cleared, mergeVars, classifyVars>>

Search(query, limit, categoryFilter) ==
    /\ lastSearch' = << [query |-> query, limit |-> limit, categoryFilter |-> categoryFilter,
                         results |-> search(engine, query, limit, categoryFilter)] >>
    /\ UNCHANGED <<engine, buildLog, cleared, mergeVars, classifyVars>>

Next ==
    \/ \E documents \in Corpora : BuildIndex(documents)
    \/ Clear
    \/ \E args \in SearchArgs : Search(args[1], args[2], args[3])

Spec == Init /\ [][Next]_vars

(***************************************************************************)
(* analyzeProject on a project whose project.md is any of ProjectFiles;    *)
(* the caller may save the returned text as the new project.md.            *)
(***************************************************************************)

\* readExistingProjectMd that tests the content for emptiness without trimming it.
readExistingProjectMdNoTrim(file) ==
    IF file = << >> THEN << >>
    ELSE IF Len(file[1]) = 0 THEN << >>
    ELSE file

\* readExistingProjectMd: << >> for null.
readExistingProjectMd(file) ==
    IF file = << >> THEN << >>
    ELSE IF Len(trim(file[1])) = 0 THEN << >>
    ELSE file

MergeInit ==
    /\ EngineInit
    /\ projectMd \in ProjectFiles
    /\ MergeIdle
    /\ ClassifyIdle

\* The merge path of analyzeProject, with its inputs kept next to the result.
mergeRun(existingContent, analysis, date) ==
    [existingContent |-> existingContent, analysis |-> analysis, date |-> date,
     merged |-> mergeProjectMd(parseProjectMdSections(existingContent), analysis, date)]

AnalyzeProject(analysis, date) ==
    /\ phase = "idle"
    /\ runs < MaxRuns
    /\ run' = IF readExistingProjectMd(projectMd) # << >>
              THEN << mergeRun(readExistingProjectMd(projectMd)[1], analysis, date) >>
              ELSE << >>
    /\ output' = IF run' # << >> THEN run'[1].merged.text ELSE formatProjectMd(analysis)
    /\ runs' = runs + 1
    /\ phase' = "done"
    /\ UNCHANGED <<projectMd, engineVars, classifyVars>>

SaveProjectMd ==
    /\ phase = "done"
    /\ projectMd' = <<output>>
    /\ phase' = "idle"
    /\ UNCHANGED <<runs, output, run, engineVars, classifyVars>>

MergeNext ==
    \/ \E analysis \in Analyses, date \in Dates : AnalyzeProject(analysis, date)
    \/ SaveProjectMd

MergeSpec == MergeInit /\ [][MergeNext]_vars

(***************************************************************************)
(* classifySection called on any of Headers.                               *)
(***************************************************************************)

ClassifyInit ==
    /\ EngineInit
    /\ projectMd = << >>
    /\ MergeIdle
    /\ sectionHeader \in Headers
    /\ sectionStrategy = ""

ClassifySection ==
    /\ sectionStrategy = ""
    /\ sectionStrategy' = classifySection(sectionHeader)
    /\ UNCHANGED <<sectionHeader, engineVars, mergeVars>>

ClassifyNext == ClassifySection

ClassifySpec == ClassifyInit /\ [][ClassifyNext]_vars

(***************************************************************************)
(* Properties of the merge engine (checked under MergeSpec).               *)
(***************************************************************************)

\* sub occurs in lines as a contiguous run.
ContainsRun(lines, sub) ==
    \E k \in 0..(Len(lines) - Len(sub)) : SubSeq(lines, k + 1, k + Len(sub)) = sub

\* The existing section is handled by the auto-update rule for sections other
\* than Project Overview.
PlainAutoUpdate(existing) ==
    /\ classifySection(existing.header) = "auto-update"
    /\ normalizeHeader(existing.header) # "## project overview"

\* C1: for every existing section with a non-empty heading that is classified
\* 'preserve', the text mergeProjectMd returns contains the section's heading
\* line immediately followed by its content lines, as one contiguous and
\* unmodified run of lines.
C1_PreservedSectionVerbatim ==
    run # << >> =>
        LET existingSections == run[1].merged.existingSections
            outputLines      == split(output)
        IN  \A i \in 1..Len(existingSections) :
                (/\ existingSections[i].header # ""
                 /\ classifySection(existingSections[i].header) = "preserve")
                => ContainsRun(outputLines, split(sectionText(existingSections[i])))

CustomOverview(existing, fresh) ==
    LET value == extractFieldValue(split(existing.content), DescriptionPrefix)
    IN  /\ normalizeHeader(existing.header) = "## project overview"
        /\ value # << >>
        /\ value[1] # ""
        /\ ~ startsWith(toLowerCase(value[1]), "[todo")
        /\ trim(sectionText(existing)) # trim(sectionText(fresh))

\* C5: when the existing Project Overview section has a custom Description and
\* differs from the fresh section, the merged section carries that Description
\* value exactly and every other line of it is the fresh section's line.
C5_OverviewKeepsDescription ==
    run # << >> =>
        LET m == run[1].merged
            fresh == generateFreshSection("## Project Overview", m.freshSections)
            freshLines == split(sectionText(fresh))
        IN  \A i \in 1..Len(m.existingSections) :
                CustomOverview(m.existingSections[i], fresh) =>
                    LET value == extractFieldValue(split(m.existingSections[i].content),
                                                   DescriptionPrefix)[1]
                        mergedLines == split(m.walk[i].part)
                    IN  /\ Len(mergedLines) = Len(freshLines)
                        /\ \A k \in 1..Len(freshLines) :
                              IF startsWith(freshLines[k], DescriptionPrefix)
                              THEN mergedLines[k] = DescriptionPrefix \o " " \o value
                              ELSE mergedLines[k] = freshLines[k]
                        /\ \E k \in 1..Len(freshLines) : startsWith(freshLines[k], DescriptionPrefix)

\* C5 witness: a Project Overview section with a custom Description was merged.
C5_Witness ==
    /\ run # << >>
    /\ \E i \in 1..Len(run[1].merged.existingSections) :
          CustomOverview(run[1].merged.existingSections[i],
                         generateFreshSection("## Project Overview", run[1].merged.freshSections))

\* The fresh sections with a non-empty heading that no existing section
\* matches (case-insensitive, trimmed), in the order of the fresh document.
UnmatchedFresh(existingSections, freshSections) ==
    SelectSeq(freshSections, LAMBDA fresh :
        /\ fresh.header # ""
        /\ ~ \E i \in 1..Len(existingSections) :
                toLowerCase(trim(existingSections[i].header)) = toLowerCase(trim(fresh.header)))

NewSectionDescription == "New section added from template"

\* C6: the sections appended after the walk are exactly the fresh sections
\* with a non-empty heading that no existing section of any strategy matches,
\* in the fresh document's order, at the end of the merged parts, each with
\* one change record 'New section added from template'.
C6_AppendUnmatchedFresh ==
    run # << >> =>
        LET m == run[1].merged
            unmatched == UnmatchedFresh(m.existingSections, m.freshSections)
        IN  /\ m.appended = unmatched
            /\ Len(m.mergedParts) = Len(m.existingSections) + Len(unmatched)
            /\ \A k \in 1..Len(unmatched) :
                  m.mergedParts[Len(m.existingSections) + k] = sectionText(unmatched[k])
            /\ SelectSeq(m.changes, LAMBDA c : c.description = NewSectionDescription)
                 = [k \in 1..Len(unmatched) |->
                       MergeChange(extractSectionName(unmatched[k].header), NewSectionDescription)]

\* C6 witness: fresh sections were appended while an existing 'preserve'
\* section matched a fresh section, which was therefore not appended.
C6_Witness ==
    /\ run # << >>
    /\ LET m == run[1].merged
       IN  /\ Len(m.appended) >= 2
           /\ \E i \in 1..Len(m.existingSections) :
                 /\ m.existingSections[i].header # ""
                 /\ classifySection(m.existingSections[i].header) = "preserve"
                 /\ generateFreshSection(m.existingSections[i].header, m.freshSections) # NoSection

\* The 'no changes detected' change log of a date.
NoChangesBanner(date) ==
    << "> **+ Re-analyzed by ^analyze_project^** (no changes detected)",
       "> **Scanned:** " \o date >>

\* The existing document of the last run is the fresh document of its analysis.
SelfMerge == run # << >> /\ run[1].existingContent = formatProjectMd(run[1].analysis)

\* C7: merging formatProjectMd(A) against A records zero changes, the change
\* log is the 'no changes detected' banner, and the returned text is
\* formatProjectMd(A) with only the banner lines (a blank line and the two
\* banner lines) inserted after its first line.
C7_SelfMergeIdentity ==
    SelfMerge =>
        LET freshLines == split(formatProjectMd(run[1].analysis))
            banner     == NoChangesBanner(run[1].date)
        IN  /\ run[1].merged.changes = << >>
            /\ run[1].merged.changeLog = join(banner)
            /\ split(output) = << freshLines[1], "" >> \o banner \o Tail(freshLines)

\* C7 witness: analyzeProject has merged a fresh document against its own analysis.
C7_Witness == SelfMerge /\ phase = "done" /\ output # ""

\* The text put together from parsed sections the way mergeProjectMd joins
\* them: heading, newline, content; content alone for the preamble.
Reassemble(sections) ==
    join([i \in 1..Len(sections) |->
             IF sections[i].header = "" THEN sections[i].content
             ELSE sections[i].header \o "\n" \o sections[i].content])

\* C8: for any document text, reassembling the sections parseProjectMdSections
\* returns reproduces the text exactly, apart from the trailing-newline state
\* of the last line.
C8_ParseRoundTrip ==
    run # << >> =>
        LET text    == run[1].existingContent
            rebuilt == Reassemble(run[1].merged.existingSections)
        IN  \/ rebuilt = text
            \/ rebuilt = text \o "\n"
            \/ rebuilt \o "\n" = text

\* The lines that open a change-log block: the first line of either form
\* of the change log.
ChangeLogHeads(lines) ==
    {i \in 1..Len(lines) :
        \/ startsWith(lines[i], "> **+ Re-analyzed by ^analyze_project^**")
        \/ startsWith(lines[i], "> **$ Updated by ^analyze_project^**")}

\* The text is empty or white space only.
BlankText(text) == \A i \in 1..Len(text) : Ch(text, i) \in {" ", "\t", "\n", "\r"}

\* C17: when the existing project.md is missing, unreadable, empty or
\* white space only, analyzeProject returns formatProjectMd(analysis)
\* unchanged, with no change-log block, and the merge path does not run; the
\* merge path runs when the file has other content.
C17_BlankFileIsAbsent ==
    phase = "done" =>
        IF projectMd = << >> \/ BlankText(projectMd[1])
        THEN /\ readExistingProjectMd(projectMd) = << >>
             /\ run = << >>
             /\ \E analysis \in Analyses : output = formatProjectMd(analysis)
             /\ ChangeLogHeads(split(output)) = {}
        ELSE /\ readExistingProjectMd(projectMd) = projectMd
             /\ run # << >>
             /\ run[1].existingContent = projectMd[1]

\* C17 witness: analyzeProject has returned for a project whose project.md
\* holds white space only.
C17_Witness ==
    /\ phase = "done"
    /\ projectMd # << >>
    /\ projectMd[1] # ""
    /\ BlankText(projectMd[1])
    /\ output # ""

\* The lines of the merged body that are top-level title lines: a line that
\* starts with '# ', before the first level-2 heading and outside a code block.
TitleLines(lines) ==
    {i \in 1..Len(lines) :
        /\ startsWith(lines[i], "# ")
        /\ \A h \in 1..i : ~ headerMatch(lines[h])
        /\ Cardinality({f \in 1..i : startsWith(trimStart(lines[f]), "^^^")}) % 2 = 0}

\* C19: mergeProjectMd inserts the change-log block (after a blank line)
\* immediately after the first top-level title line of the merged document
\* when it has one, and otherwise puts it before all content: never inside a
\* level-2 section or a code block.
C19_ChangeLogAfterTitle ==
    run # << >> =>
        LET body     == split(join(run[1].merged.mergedParts))
            logLines == split(run[1].merged.changeLog)
        IN  IF TitleLines(body) # {}
            THEN split(output) = SubSeq(body, 1, Min(TitleLines(body))) \o << "" >> \o logLines
                                   \o SubSeq(body, Min(TitleLines(body)) + 1, Len(body))
            ELSE split(output) = logLines \o body

\* C20: a merged document carries exactly one change-log block, also when the
\* existing document is the output of an earlier merge.
C20_OneChangeLog ==
    run # << >> => Cardinality(ChangeLogHeads(split(output))) = 1

\* The step is an analyzeProject call that merges the saved output of the
\* previous merge with the analysis of that merge.
MergesOwnOutput ==
    /\ phase = "idle"
    /\ run # << >>
    /\ projectMd = << output >>
    /\ phase' = "done"
    /\ run' # << >>
    /\ run'[1].analysis = run[1].analysis

\* C21: merging converges after one pass: when the output of
\* mergeProjectMd(E, A) is parsed and merged again with the same A, the second
\* merge records zero changes and its change log is the 'no changes detected'
\* banner.
C21_MergeConverges ==
    [][MergesOwnOutput =>
          /\ run'[1].merged.changes = << >>
          /\ run'[1].merged.changeLog = join(NoChangesBanner(run'[1].date))]_vars

\* The text of an existing section as the walk pushes it when it keeps the
\* section: heading, newline, content; the content alone for the preamble.
KeptText(existing) ==
    IF existing.header = "" THEN existing.content ELSE sectionText(existing)

\* The part is the fresh counterpart of the existing section: it starts with
\* the heading of the fresh section that has the existing section's heading.
FreshCounterpart(part, existing, freshSections) ==
    /\ generateFreshSection(existing.header, freshSections) # NoSection
    /\ split(part)[1] = generateFreshSection(existing.header, freshSections).header

\* C24: mergeProjectMd keeps document order and loses no section: the merged
\* body holds one part per existing section, in the existing document's
\* order, each the kept section or its fresh counterpart, followed only by the
\* appended fresh sections; and the returned text parses into as many
\* sections as there are existing and appended sections, with the headings of
\* those parts in that order.
C24_OrderKept ==
    run # << >> =>
        LET m      == run[1].merged
            n      == Len(m.existingSections)
            parsed == parseProjectMdSections(output)
        IN  /\ Len(m.mergedParts) = n + Len(m.appended)
            /\ Len(parsed) = n + Len(m.appended)
            /\ \A i \in 1..n :
                  /\ \/ m.mergedParts[i] = KeptText(m.existingSections[i])
                     \/ FreshCounterpart(m.mergedParts[i], m.existingSections[i], m.freshSections)
                  /\ parsed[i].header = IF m.existingSections[i].header = "" THEN ""
                                        ELSE split(m.mergedParts[i])[1]
            /\ \A k \in 1..Len(m.appended) :
                  /\ m.mergedParts[n + k] = sectionText(m.appended[k])
                  /\ \E f \in 1..Len(m.freshSections) : m.freshSections[f] = m.appended[k]
                  /\ parsed[n + k].header = m.appended[k].header

\* C24 witness: a document with a preamble and at least two sections was
\* merged; one section was kept, one was replaced by its fresh counterpart,
\* and fresh sections were appended.
C24_Witness ==
    /\ run # << >>
    /\ LET m == run[1].merged
       IN  /\ Len(m.existingSections) >= 3
           /\ m.existingSections[1].header = ""
           /\ Len(m.appended) >= 1
           /\ \E i \in 2..Len(m.existingSections) :
                 m.mergedParts[i] = KeptText(m.existingSections[i])
           /\ \E i \in 2..Len(m.existingSections) :
                 /\ m.mergedParts[i] # KeptText(m.existingSections[i])
                 /\ FreshCounterpart(m.mergedParts[i], m.existingSections[i], m.freshSections)

\* C25: an existing section classified 'static' is replaced by the heading
\* and content of the fresh section with the same heading (case-insensitive,
\* trimmed) whenever there is one, whether or not the contents differ, and no
\* change is recorded for it; with no such fresh section it is kept verbatim.
C25_StaticReplaced ==
    run # << >> =>
        LET m == run[1].merged
        IN  \A i \in 1..Len(m.existingSections) :
                classifySection(m.existingSections[i].header) = "static" =>
                    LET Match == {k \in 1..Len(m.freshSections) :
                                     toLowerCase(trim(m.freshSections[k].header))
                                         = toLowerCase(trim(m.existingSections[i].header))}
                    IN  /\ m.walk[i].changes = << >>
                        /\ \A c \in 1..Len(m.changes) :
                              m.changes[c].section
                                  # extractSectionName(m.existingSections[i].header)
                        /\ m.mergedParts[i] =
                              IF Match = {} THEN sectionText(m.existingSections[i])
                              ELSE sectionText(m.freshSections[Min(Match)])

\* C25 witness: a static section whose content differs from the fresh one
\* was replaced, and a static section with no fresh counterpart was kept.
C25_Witness ==
    /\ run # << >>
    /\ LET m == run[1].merged
       IN  /\ \E i \in 1..Len(m.existingSections) :
                 /\ classifySection(m.existingSections[i].header) = "static"
                 /\ generateFreshSection(m.existingSections[i].header, m.freshSections) # NoSection
                 /\ m.mergedParts[i] # sectionText(m.existingSections[i])
           /\ \E i \in 1..Len(m.existingSections) :
                 /\ classifySection(m.existingSections[i].header) = "static"
                 /\ generateFreshSection(m.existingSections[i].header, m.freshSections) = NoSection
                 /\ m.mergedParts[i] = sectionText(m.existingSections[i])

\* The lines of a section's content that carry something other than the
\* Description: the non-blank lines outside the Description lines.
OtherFields(content) ==
    SelectSeq(split(content), LAMBDA line :
        /\ ~ BlankText(line)
        /\ ~ startsWith(trimStart(line), DescriptionPrefix))

\* The existing section is a Project Overview section that has a fresh
\* counterpart.
OverviewMerged(existing, freshSections) ==
    /\ normalizeHeader(existing.header) = "## project overview"
    /\ generateFreshSection(existing.header, freshSections) # NoSection

OverviewChange == MergeChange("Project Overview", "Updated name/type from fresh scan")

OnlyDescriptionDiffers(existing, freshSections) ==
    /\ OverviewMerged(existing, freshSections)
    /\ extractFieldValue(split(existing.content), DescriptionPrefix)
         # extractFieldValue(split(generateFreshSection(existing.header, freshSections).content),
                             DescriptionPrefix)
    /\ OtherFields(existing.content)
         = OtherFields(generateFreshSection(existing.header, freshSections).content)

LevelTwoHeading(line) ==
    /\ Len(line) >= 4
    /\ SubSeq(line, 1, 2) = "##"
    /\ Ch(line, 3) \in WhiteSpace

\* The positions of the level-2 heading lines among the lines.
HeadingLines(lines) == {i \in 1..Len(lines) : LevelTwoHeading(lines[i])}

\* The sections are the text split at its level-2 heading lines and nowhere
\* else: one level-2 section per heading line, its heading that line and its
\* content the lines up to the next heading line; before them, and only when
\* a line precedes the first heading line, one section with empty heading and
\* level 0 that holds those lines.
SplitAtHeadings(lines, sections) ==
    LET H        == HeadingLines(lines)
        first    == IF H = {} THEN Len(lines) + 1 ELSE Min(H)
        preamble == IF first > 1 THEN 1 ELSE 0
        nextOf(h) == IF {g \in H : g > h} = {} THEN Len(lines) + 1
                     ELSE Min({g \in H : g > h})
    IN  /\ Len(sections) = preamble + Cardinality(H)
        /\ preamble = 1 =>
              sections[1] = [header |-> "", level |-> 0,
                             content |-> join(SubSeq(lines, 1, first - 1))]
        /\ \A h \in H :
              sections[preamble + Cardinality({g \in H : g <= h})]
                 = [header |-> lines[h], level |-> 2,
                    content |-> join(SubSeq(lines, h + 1, nextOf(h) - 1))]
        /\ \A k \in 1..Len(sections) :
              sections[k].header = "" => (k = 1 /\ sections[k].level = 0 /\ first > 1)

AutoUpdateHeadingsLower ==
    {"## project overview", "## toolchain", "## commands", "## project structure"}

StaticHeadingsLower ==
    {"## @ mandatory: load codeops rules before any work", "## cross-references"}

\* C16: classifySection is total and depends only on the heading: the empty
\* or white-space-only heading gives 'preserve'; a heading that, trimmed and
\* lower-cased, starts with one of the four auto-update headings gives
\* 'auto-update' in any letter case; otherwise one that starts with one of
\* the two static headings gives 'static'; every other string gives 'preserve'.
C16_ClassifyByHeading ==
    sectionStrategy # "" =>
        sectionStrategy =
            IF BlankText(sectionHeader) THEN "preserve"
            ELSE IF \E h \in AutoUpdateHeadingsLower :
                        startsWith(toLowerCase(trim(sectionHeader)), h)
                 THEN "auto-update"
            ELSE IF \E h \in StaticHeadingsLower :
                        startsWith(toLowerCase(trim(sectionHeader)), h)
                 THEN "static"
            ELSE "preserve"

\* C16 witness: a heading written in another letter case than the known
\* heading, with white space around it, was classified 'auto-update'.
C16_Witness ==
    /\ sectionStrategy = "auto-update"
    /\ sectionHeader # trim(sectionHeader)
    /\ \A k \in 1..Len(AUTO_UPDATE_SECTIONS) :
          ~ startsWith(trim(sectionHeader), AUTO_UPDATE_SECTIONS[k])

(***************************************************************************)
(* Properties of the search engine (checked under Spec).                   *)
(***************************************************************************)

\* The state of a new engine after one buildIndex(documents).
BuiltOnce(documents) == buildIndex(NewEngine, documents)

\* C2: buildIndex(D) called twice in a row, with no clear in between, leaves
\* the indexed documents, the postings of every term and the total document
\* count as one call does, and every query then returns the results, with the
\* relevance values, it returns after a single build.
C2_BuildIndexIdempotent ==
    (Len(buildLog) = 2 /\ buildLog[1] = buildLog[2]) =>
        LET once == BuiltOnce(buildLog[1])
        IN  /\ engine.indexedDocs = once.indexedDocs
            /\ engine.invertedIndex = once.invertedIndex
            /\ engine.totalDocuments = once.totalDocuments
            /\ lastSearch # << >> =>
                  lastSearch[1].results = search(once, lastSearch[1].query, lastSearch[1].limit,
                                                 lastSearch[1].categoryFilter)

\* C3: after buildIndex(A) followed by buildIndex(B) with no clear in between,
\* a search returns only documents of B, each with the relevance it has in an
\* index built from B alone.
C3_SearchReflectsLastBuild ==
    (Len(buildLog) >= 2 /\ lastSearch # << >>) =>
        LET B        == buildLog[Len(buildLog)]
            results  == lastSearch[1].results
            fromB    == search(BuiltOnce(B), lastSearch[1].query, <<MAX_SEARCH_LIMIT>>,
                               lastSearch[1].categoryFilter)
        IN  \A r \in 1..Len(results) :
                /\ \E k \in 1..Len(B) : B[k] = results[r].document
                /\ \E k \in 1..Len(fromB) :
                      /\ fromB[k].document = results[r].document
                      /\ fromB[k].relevance = results[r].relevance

\* C9: after any sequence of buildIndex and clear calls, a term is a key of
\* the inverted index iff it occurs, after tokenization, in the title,
\* description or body of a currently indexed document, and a term has at most
\* one posting per indexed document, whose count is the number of occurrences
\* of the term in that document.
C9_IndexMatchesDocuments ==
    LET docs == engine.indexedDocs
        index == engine.invertedIndex
        tokensOf(k) == tokenize(docs[k].entry.title) \o tokenize(docs[k].entry.description)
                         \o tokenize(docs[k].entry.content)
        occurrences(k, term) ==
            Cardinality({i \in 1..Len(tokensOf(k)) : tokensOf(k)[i] = term})
    IN  /\ \A term \in DOMAIN index : \E k \in 1..Len(docs) : occurrences(k, term) > 0
        /\ \A k \in 1..Len(docs) : \A i \in 1..Len(tokensOf(k)) : tokensOf(k)[i] \in DOMAIN index
        /\ \A term \in DOMAIN index : \A k \in 1..Len(docs) :
              LET P == {p \in 1..Len(index[term]) :
                           index[term][p].documentId = docs[k].entry.id}
              IN  /\ Cardinality(P) <= 1
                  /\ \A p \in P : index[term][p].termFrequency = occurrences(k, term)

\* C10: after clear() the vocabulary size is 0 and every search returns an
\* empty list until the next buildIndex; the buildIndex(D) that follows a
\* clear() leaves the engine in the state buildIndex(D) leaves a new engine in.
C10_ClearThenRebuild ==
    /\ (cleared /\ buildLog = << >>) =>
          /\ vocabularySize(engine) = 0
          /\ lastSearch # << >> => lastSearch[1].results = << >>
    /\ (cleared /\ Len(buildLog) = 1) => engine = BuiltOnce(buildLog[1])

\* C10 witness: an engine rebuilt from a non-empty document list after a
\* clear() answers a query with results.
C10_Witness ==
    /\ cleared
    /\ Len(buildLog) = 1
    /\ vocabularySize(engine) > 0
    /\ lastSearch # << >>
    /\ lastSearch[1].results # << >>

\* C11: for every query and every numeric limit n, 0 and negative values
\* included, search(q, n) returns at most min(max(n, 1), 7) results, and at
\* most 5 when the limit is omitted.
C11_LimitClamped ==
    lastSearch # << >> =>
        Len(lastSearch[1].results)
            <= (IF lastSearch[1].limit = << >> THEN 5
                ELSE IF lastSearch[1].limit[1] < 1 THEN 1
                ELSE IF lastSearch[1].limit[1] > 7 THEN 7
                ELSE lastSearch[1].limit[1])

\* C11 witness: a search with a negative limit returned one result while at
\* least three indexed documents match the query.
C11_Witness ==
    /\ lastSearch # << >>
    /\ lastSearch[1].limit # << >>
    /\ lastSearch[1].limit[1] < 0
    /\ Len(lastSearch[1].results) = 1
    /\ Len(search(engine, lastSearch[1].query, <<MAX_SEARCH_LIMIT>>,
                  lastSearch[1].categoryFilter)) >= 3

\* C12: when search is called with a category filter, the document of every
\* returned result has exactly that category.
C12_CategoryFilter ==
    (lastSearch # << >> /\ lastSearch[1].categoryFilter # "") =>
        \A r \in 1..Len(lastSearch[1].results) :
            lastSearch[1].results[r].document.category = lastSearch[1].categoryFilter

\* C12 witness: a filtered search returned results and left out a document
\* of another category that the same query returns without the filter.
C12_Witness ==
    /\ lastSearch # << >>
    /\ lastSearch[1].categoryFilter # ""
    /\ lastSearch[1].results # << >>
    /\ \E other \in {search(engine, lastSearch[1].query, <<MAX_SEARCH_LIMIT>>, "")} :
          \E r \in 1..Len(other) : other[r].document.category # lastSearch[1].categoryFilter

\* C13: every result returned by search has an integer relevance between 0
\* and 100, in every index state that buildIndex and clear calls reach.
C13_RelevanceRange ==
    lastSearch # << >> =>
        \A r \in 1..Len(lastSearch[1].results) :
            lastSearch[1].results[r].relevance \in 0..100

\* C13 witness: a result has relevance 100 for a document whose score is
\* above the theoretical maximum.
C13_Witness ==
    /\ lastSearch # << >>
    /\ \E r \in 1..Len(lastSearch[1].results), k \in 1..Len(engine.indexedDocs) :
          /\ lastSearch[1].results[r].relevance = 100
          /\ engine.indexedDocs[k].entry = lastSearch[1].results[r].document
          /\ relevanceOfUnclamped(scoreDocument(engine, engine.indexedDocs[k],
                                                tokenize(lastSearch[1].query)),
                                  getMaxPossibleScore(engine, Len(tokenize(lastSearch[1].query))))
                > 100

\* The excerpt is the placeholder, and no line of the body is a non-empty
\* line of more than 20 characters outside headings, quotes and rules.
PlaceholderExcerpt(excerpt, lines) ==
    /\ excerpt = "CodeOps rule document"
    /\ \A i \in 1..Len(lines) :
          \/ Len(trim(lines[i])) <= 20
          \/ startsWith(trim(lines[i]), "#")
          \/ startsWith(trim(lines[i]), ">")
          \/ startsWith(trim(lines[i]), "---")

\* The excerpt is the trimmed body line cut to 200 characters and followed by '...'.
CutExcerpt(excerpt, line) ==
    /\ Len(trim(line)) > 200
    /\ excerpt = SubSeq(trim(line), 1, 200) \o "..."

\* C14: every result returned by search has a non-empty excerpt: a trimmed
\* body line, a body line cut to 200 characters followed by '...', or the
\* fixed placeholder 'CodeOps rule document' when no body line qualifies.
C14_ExcerptNonEmpty ==
    lastSearch # << >> =>
        \A r \in 1..Len(lastSearch[1].results) :
            /\ lastSearch[1].results[r].excerpt # ""
            /\ \/ PlaceholderExcerpt(lastSearch[1].results[r].excerpt,
                                      split(lastSearch[1].results[r].document.content))
               \/ \E i \in 1..Len(split(lastSearch[1].results[r].document.content)) :
                     \/ (/\ Len(trim(split(lastSearch[1].results[r].document.content)[i])) <= 200
                         /\ lastSearch[1].results[r].excerpt
                              = trim(split(lastSearch[1].results[r].document.content)[i]))
                     \/ CutExcerpt(lastSearch[1].results[r].excerpt,
                                   split(lastSearch[1].results[r].document.content)[i])

\* C14 witness: one result list holds a cut excerpt, the placeholder, and an
\* excerpt that is a body line without its surrounding white space.
C14_Witness ==
    /\ lastSearch # << >>
    /\ \E r \in 1..Len(lastSearch[1].results) :
          \E i \in 1..Len(split(lastSearch[1].results[r].document.content)) :
              CutExcerpt(lastSearch[1].results[r].excerpt,
                         split(lastSearch[1].results[r].document.content)[i])
    /\ \E r \in 1..Len(lastSearch[1].results) :
          lastSearch[1].results[r].excerpt = "CodeOps rule document"
    /\ \E r \in 1..Len(lastSearch[1].results) :
          \E i \in 1..Len(split(lastSearch[1].results[r].document.content)) :
              /\ lastSearch[1].results[r].excerpt
                    = trim(split(lastSearch[1].results[r].document.content)[i])
              /\ lastSearch[1].results[r].excerpt
                    # split(lastSearch[1].results[r].document.content)[i]

\* Every word of the query (a maximal run of letters, digits and '-') is
\* one character long or a stop word; a query without words included.
OnlyStopOrShortWords(query) ==
    \A i \in 1..Len(splitTokens(toLowerCase(query))) :
        \/ Len(splitTokens(toLowerCase(query))[i]) < 2
        \/ splitTokens(toLowerCase(query))[i] \in STOP_WORDS

\* C15: a query whose token sequence is empty (the empty string, white space
\* only, only stop words, only one-character words) makes search return an
\* empty list, in every index state.
C15_EmptyQuery ==
    lastSearch # << >> =>
        /\ tokenize(lastSearch[1].query) = << >> => lastSearch[1].results = << >>
        /\ OnlyStopOrShortWords(lastSearch[1].query) => lastSearch[1].results = << >>

\* C15 witness: a query of stop words only was answered with the empty list
\* by an engine that indexes a document whose body has one of those words.
C15_Witness ==
    /\ lastSearch # << >>
    /\ lastSearch[1].query = "the and of"
    /\ lastSearch[1].results = << >>
    /\ engine.totalDocuments > 0
    /\ \E k \in 1..Len(engine.indexedDocs) :
          includes(engine.indexedDocs[k].entry.content, " the ")

\* The tokens are well formed: at least two characters, only a-z, 0-9 and
\* '-', and no stop word.
WellFormedTokens(tokens) ==
    \A i \in 1..Len(tokens) :
        /\ Len(tokens[i]) >= 2
        /\ \A c \in 1..Len(tokens[i]) : Ch(tokens[i], c) \in TokenChars
        /\ tokens[i] \notin STOP_WORDS

\* C18: for every input text each token tokenize returns has length at least
\* 2, consists only of a-z, 0-9 and '-', and is no stop word; and the result
\* depends only on the text: the tokens an indexed document carries, whatever
\* the calls before it, are those tokenize gives for its fields.
C18_TokensWellFormed ==
    /\ \A k \in 1..Len(engine.indexedDocs) :
          /\ WellFormedTokens(engine.indexedDocs[k].titleTokens)
          /\ WellFormedTokens(engine.indexedDocs[k].descriptionTokens)
          /\ WellFormedTokens(engine.indexedDocs[k].contentTokens)
          /\ engine.indexedDocs[k].titleTokens = tokenize(engine.indexedDocs[k].entry.title)
          /\ engine.indexedDocs[k].descriptionTokens
                = tokenize(engine.indexedDocs[k].entry.description)
          /\ engine.indexedDocs[k].contentTokens = tokenize(engine.indexedDocs[k].entry.content)
    /\ lastSearch # << >> => WellFormedTokens(tokenize(lastSearch[1].query))

\* C18 witness: an indexed document whose body holds a stop word, a
\* one-character word and an upper-case letter carries tokens.
C18_Witness ==
    \E k \in 1..Len(engine.indexedDocs) :
        /\ engine.indexedDocs[k].contentTokens # << >>
        /\ includes(engine.indexedDocs[k].entry.content, " of ")
        /\ includes(engine.indexedDocs[k].entry.content, " 1 ")
        /\ engine.indexedDocs[k].entry.content # toLowerCase(engine.indexedDocs[k].entry.content)
        /\ Len(engine.indexedDocs[k].contentTokens)
             < Len(splitTokens(toLowerCase(engine.indexedDocs[k].entry.content)))

\* The trimmed line is a structural markdown line: a heading, a table row, a
\* code-fence line, a rule, a blockquote, a checklist-style bullet, or a line
\* shorter than 20 characters.
StructuralLine(trimmed) ==
    \/ startsWith(trimmed, "#")
    \/ startsWith(trimmed, "|")
    \/ startsWith(trimmed, "^^^")
    \/ startsWith(trimmed, "---")
    \/ startsWith(trimmed, ">")
    \/ startsWith(trimmed, "- %")
    \/ startsWith(trimmed, "- +")
    \/ Len(trimmed) < 20

\* C23: an excerpt that is not the fixed placeholder is taken from a body line
\* that is not a structural markdown line, in the query-match pass and in the
\* fallback pass of extractExcerpt alike.
C23_ExcerptNotStructural ==
    lastSearch # << >> =>
        \A r \in 1..Len(lastSearch[1].results) :
            lastSearch[1].results[r].excerpt # "CodeOps rule document" =>
                \A i \in 1..Len(split(lastSearch[1].results[r].document.content)) :
                    lastSearch[1].results[r].excerpt
                        = truncate(trim(split(lastSearch[1].results[r].document.content)[i]),
                                   EXCERPT_MAX_LENGTH)
                    => ~ StructuralLine(trim(split(lastSearch[1].results[r].document.content)[i]))

\* The whole ranking of a query without a category filter and without a limit.
FullRanking(eng, query) ==
    searchResults(eng, tokenize(query), sortEntries(scoreEntries(eng, tokenize(query), "")))

\* The results of the category among the results, in their order.
OfCategory(results, category) ==
    SelectSeq(results, LAMBDA result : result.document.category = category)

\* The effective limit of a search call.
LimitOf(call) ==
    effectiveLimit(IF call.limit = << >> THEN DEFAULT_SEARCH_LIMIT ELSE call.limit[1])

\* C27: the category filter selects the documents and never changes a score:
\* the results of a filtered search are the unfiltered ranking of the same
\* query on the same index, restricted to the documents of that category and
\* cut to the limit, each document with the relevance it has there.
C27_FilterKeepsScores ==
    (lastSearch # << >> /\ lastSearch[1].categoryFilter # "") =>
        lastSearch[1].results
            = SubSeq(OfCategory(FullRanking(engine, lastSearch[1].query),
                                lastSearch[1].categoryFilter),
                     1,
                     MathMin(LimitOf(lastSearch[1]),
                             Len(OfCategory(FullRanking(engine, lastSearch[1].query),
                                            lastSearch[1].categoryFilter))))

\* C27 witness: a filtered search returned a document with a relevance below
\* 100 while the unfiltered ranking of the query also holds a document of
\* another category.
C27_Witness ==
    /\ lastSearch # << >>
    /\ lastSearch[1].categoryFilter # ""
    /\ \E r \in 1..Len(lastSearch[1].results) : lastSearch[1].results[r].relevance < 100
    /\ Len(OfCategory(FullRanking(engine, lastSearch[1].query), lastSearch[1].categoryFilter))
          < Len(FullRanking(engine, lastSearch[1].query))

\* The step is a search call that is answered in the next state.
SearchAnswered == lastSearch' # << >> /\ lastSearch' # lastSearch

\* C28: search changes no engine state: the inverted index, the indexed
\* documents and the total document count are the same after any search call
\* as before it, and the results are those the query has on that unchanged
\* index, so a repeated query between two builds returns the same results.
C28_SearchChangesNothing ==
    [][SearchAnswered =>
          /\ engine'.invertedIndex = engine.invertedIndex
          /\ engine'.indexedDocs = engine.indexedDocs
          /\ engine'.totalDocuments = engine.totalDocuments
          /\ lastSearch'[1].results
                = search(engine', lastSearch'[1].query, lastSearch'[1].limit,
                         lastSearch'[1].categoryFilter)]_vars

\* C28 witness: a search with a query token that is no index term was
\* answered with results, the token being matched as a prefix.
C28_Witness ==
    /\ lastSearch # << >>
    /\ lastSearch[1].results # << >>
    /\ Len(tokenize(lastSearch[1].query)) = 1
    /\ tokenize(lastSearch[1].query)[1] \notin DOMAIN engine.invertedIndex

\* The scores of the indexed documents for the query tokens, by position.
ScoresOf(eng, queryTokens) ==
    [k \in 1..Len(eng.indexedDocs) |-> scoreDocument(eng, eng.indexedDocs[k], queryTokens)]

\* The position of the document among the indexed documents (0 when it is
\* not indexed).
PositionOf(eng, document) ==
    IF \E k \in 1..Len(eng.indexedDocs) : eng.indexedDocs[k].entry = document
    THEN CHOOSE k \in 1..Len(eng.indexedDocs) : eng.indexedDocs[k].entry = document
    ELSE 0

\* Document j ranks before document k: its score is higher, or the scores
\* are equal and j was indexed first.
RanksBefore(scores, j, k) ==
    \/ scores[j].num * scores[k].den > scores[k].num * scores[j].den
    \/ (scores[j].num * scores[k].den = scores[k].num * scores[j].den /\ j < k)

\* The results are the first 'limit' documents of the candidates (the
\* positions with a strictly positive score that pass the category filter)
\* in ranking order; positions[r] is the indexed position of result r.
RankedResults(results, positions, Candidates, scores, limit) ==
    /\ Len(results) = MathMin(limit, Cardinality(Candidates))
    /\ \A r \in 1..Len(results) : positions[r] \in Candidates
    /\ \A r, t \in 1..Len(results) : r < t => RanksBefore(scores, positions[r], positions[t])
    /\ \A k \in Candidates \ {positions[r] : r \in 1..Len(results)} :
          \A r \in 1..Len(results) : RanksBefore(scores, positions[r], k)
    /\ \A r \in 1..(Len(results) - 1) : results[r].relevance >= results[r + 1].relevance

\* The positions with a strictly positive score that pass the category filter.
CandidatesOf(eng, scores, categoryFilter) ==
    {k \in 1..Len(eng.indexedDocs) :
        /\ ~ skippedByCategory(eng.indexedDocs[k].entry, categoryFilter)
        /\ scores[k].num > 0}

\* C29: search returns only documents with a strictly positive score, in
\* non-increasing score order, so that relevance never increases down the
\* list, documents of equal score in the order they were indexed; the
\* returned list is exactly the first 'limit' entries of that ordering.
C29_RankedByScore ==
    (lastSearch # << >> /\ tokenize(lastSearch[1].query) # << >>) =>
        RankedResults(lastSearch[1].results,
                      [r \in 1..Len(lastSearch[1].results) |->
                          PositionOf(engine, lastSearch[1].results[r].document)],
                      CandidatesOf(engine, ScoresOf(engine, tokenize(lastSearch[1].query)),
                                   lastSearch[1].categoryFilter),
                      ScoresOf(engine, tokenize(lastSearch[1].query)),
                      LimitOf(lastSearch[1]))

\* Results r and r + 1 of the last search have equal scores.
TiedResults(scores, r) ==
    LET j == PositionOf(engine, lastSearch[1].results[r].document)
        k == PositionOf(engine, lastSearch[1].results[r + 1].document)
    IN  scores[j].num * scores[k].den = scores[k].num * scores[j].den

\* C29 witness: a result list was cut at the limit, holds two neighbours
\* with equal scores and two neighbours with different scores.
C29_Witness ==
    /\ lastSearch # << >>
    /\ tokenize(lastSearch[1].query) # << >>
    /\ Len(lastSearch[1].results) = LimitOf(lastSearch[1])
    /\ Cardinality(CandidatesOf(engine, ScoresOf(engine, tokenize(lastSearch[1].query)),
                                lastSearch[1].categoryFilter)) > LimitOf(lastSearch[1])
    /\ \E r \in 1..(Len(lastSearch[1].results) - 1) :
          TiedResults(ScoresOf(engine, tokenize(lastSearch[1].query)), r)
    /\ \E r \in 1..(Len(lastSearch[1].results) - 1) :
          ~ TiedResults(ScoresOf(engine, tokenize(lastSearch[1].query)), r)

\* The indexed document has a title, description or body token that equals
\* the term or starts with it.
MatchesTerm(indexedDoc, term) ==
    \E i \in 1..Len(indexedDoc.titleTokens \o indexedDoc.descriptionTokens
                       \o indexedDoc.contentTokens) :
        startsWith((indexedDoc.titleTokens \o indexedDoc.descriptionTokens
                      \o indexedDoc.contentTokens)[i], term)

\* C22: for a one-term query q, the IDF factor of q is strictly positive when
\* an indexed document has a token equal to q or starting with q, and every
\* such document that passes the category filter gets a strictly positive
\* score and is returned whenever the limit allows.
C22_PrefixMatchIsCandidate ==
    (lastSearch # << >> /\ Len(tokenize(lastSearch[1].query)) = 1) =>
        \A k \in 1..Len(engine.indexedDocs) :
            (/\ MatchesTerm(engine.indexedDocs[k], tokenize(lastSearch[1].query)[1])
             /\ ~ skippedByCategory(engine.indexedDocs[k].entry, lastSearch[1].categoryFilter))
            => /\ calculateIdf(engine, tokenize(lastSearch[1].query)[1]) > 0
               /\ scoreDocument(engine, engine.indexedDocs[k], tokenize(lastSearch[1].query)).num > 0
               /\ \/ \E r \in 1..Len(lastSearch[1].results) :
                        lastSearch[1].results[r].document = engine.indexedDocs[k].entry
                  \/ Len(lastSearch[1].results)
                        = effectiveLimit(IF lastSearch[1].limit = << >> THEN DEFAULT_SEARCH_LIMIT
                                         ELSE lastSearch[1].limit[1])
====
